---- MODULE Spec2Model ----
(***************************************************************************)
(* Model of robotDemo.py: the light-following loop driven by two PID       *)
(* controllers (follow_light), the Morse run-length reader                 *)
(* (read_morse_with_pauses, trim_morse_list), the letter segmenter and     *)
(* translator (translate_morse_code, get_word_string) and the sequencing   *)
(* of demo().                                                              *)
(***************************************************************************)
EXTENDS Integers, Sequences, FiniteSets, TLC

(***************************************************************************)
(* Bounds of the model.                                                    *)
(***************************************************************************)
\* largest value of follow_light's duration parameter (whole timer seconds)
MaxDuration == 1
\* loop iterations of follow_light that may pass without the timer advancing
MaxTicks == 1
\* value of num_readings passed to read_morse_with_pauses by demo
NumReadings == 7
\* longest run handed directly to translate_morse_code
MaxRun == 5
\* longest word keyed in by the word-sending harness
MaxWordLen == 2
\* most off-samples that follow the last symbol of a keyed word
MaxTrail == 1
\* most letter patterns handed directly to get_word_string
MaxLetters == 2

(***************************************************************************)
(* Sensor values.  get_ambient_light() returns a percentage; each phase    *)
(* draws its readings from a small set of them.                            *)
(***************************************************************************)
\* readings taken by calibrate()
CalLevels == {10, 90}
\* readings taken by either sensor during follow_light
TrackLevels == {89, 90, 95}
\* readings taken by the left sensor during read_morse_with_pauses
MorseLevels == {10, 50, 90}

Abs(x) == IF x < 0 THEN -x ELSE x

Last(s) == s[Len(s)]

ButLast(s) == SubSeq(s, 1, Len(s) - 1)

(***************************************************************************)
(* morse_code: the dictionary, in insertion order (the order in which      *)
(* morse_code.items() yields its entries).                                 *)
(***************************************************************************)
morse_code_items ==
  << [key |-> "A", value |-> <<1, 0, 3>>],
     [key |-> "B", value |-> <<3, 0, 1, 0, 1, 0, 1>>],
     [key |-> "C", value |-> <<3, 0, 1, 0, 3, 0, 1>>],
     [key |-> "D", value |-> <<3, 0, 1, 0, 1>>],
     [key |-> "E", value |-> <<1>>],
     [key |-> "F", value |-> <<1, 0, 1, 0, 3, 0, 1>>],
     [key |-> "G", value |-> <<3, 0, 3, 0, 1>>],
     [key |-> "H", value |-> <<1, 0, 1, 0, 1, 0, 1>>],
     [key |-> "I", value |-> <<1, 0, 1>>],
     [key |-> "J", value |-> <<1, 0, 3, 0, 3, 0, 3>>],
     [key |-> "K", value |-> <<3, 0, 1, 0, 3>>],
     [key |-> "L", value |-> <<1, 0, 3, 0, 1, 0, 1>>],
     [key |-> "M", value |-> <<3, 0, 3>>],
     [key |-> "N", value |-> <<3, 0, 1>>],
     [key |-> "O", value |-> <<3, 0, 3, 0, 3>>],
     [key |-> "P", value |-> <<1, 0, 3, 0, 3, 0, 1>>],
     [key |-> "Q", value |-> <<3, 0, 3, 0, 1, 0, 3>>],
     [key |-> "R", value |-> <<1, 0, 3, 0, 1>>],
     [key |-> "S", value |-> <<1, 0, 1, 0, 1>>],
     [key |-> "T", value |-> <<3>>],
     [key |-> "U", value |-> <<1, 0, 1, 0, 3>>],
     [key |-> "V", value |-> <<1, 0, 1, 0, 1, 0, 3>>],
     [key |-> "W", value |-> <<1, 0, 3, 0, 3>>],
     [key |-> "X", value |-> <<3, 0, 1, 0, 1, 0, 3>>],
     [key |-> "Y", value |-> <<3, 0, 1, 0, 3, 0, 3>>],
     [key |-> "Z", value |-> <<3, 0, 3, 0, 1, 0, 1>> ] >>

\* the dictionary with the pattern of S entered for I as well
morse_code_repeated ==
  [morse_code_items EXCEPT ![9] = [key |-> "I", value |-> <<1, 0, 1, 0, 1>>]]

\* the global the translator reads
morse_code == morse_code_items

(***************************************************************************)
(* follow_light: the PID arithmetic.                                       *)
(***************************************************************************)
\* The gains 0.3, 0.0001 and 0.4 as integers over the common scale 10000.
GainScale == 10000
gain_p == 3000
gain_i == 1
gain_d == 4000

\* rounding toward minus infinity instead
int_floor(n, d) == n \div d

\* int(x) of Python for the rational x = n / d, d > 0: the fractional part is
\* discarded, so the result is rounded toward zero.
int(n, d) == IF n >= 0 THEN n \div d ELSE -((-n) \div d)

\* int(gain_p * error + gain_i * error_sum + gain_d * error_diff), in exact
\* arithmetic.  The code computes the sum in double precision, which can fall
\* just short of a whole number the exact sum reaches; for the errors, sums
\* and differences that arise from TrackLevels and CalLevels the two agree.
power(error, error_sum, error_diff) ==
  int(gain_p * error + gain_i * error_sum + gain_d * error_diff, GainScale)

\* arrival with each side reset on its own error alone
arrival_per_side(le, re, lsum, rsum) ==
  [left_error |-> le, right_error |-> re,
   left_error_sum |-> IF le = 0 THEN 0 ELSE lsum + le,
   right_error_sum |-> IF re = 0 THEN 0 ELSE rsum + re]

\* lines 101-110: the errors and the error sums after the arrival branch
arrival(le, re, lsum, rsum) ==
  IF le = 0 \/ re = 0
    THEN [left_error |-> 0, right_error |-> 0,
          left_error_sum |-> 0, right_error_sum |-> 0]
    ELSE [left_error |-> le, right_error |-> re,
          left_error_sum |-> lsum + le, right_error_sum |-> rsum + re]

\* the differential terms without the override of lines 116-118
differential_per_side(le, re, lprev, rprev) ==
  [left_error_diff |-> le - lprev, right_error_diff |-> re - rprev]

\* lines 112-118: the two differential terms
differential(le, re, lprev, rprev) ==
  LET ld == le - lprev
      rd == re - rprev
  IN IF ld = 0 \/ rd = 0
       THEN [left_error_diff |-> 0, right_error_diff |-> 0]
       ELSE [left_error_diff |-> ld, right_error_diff |-> rd]

(***************************************************************************)
(* read_morse_with_pauses: classification and run-length encoding.         *)
(***************************************************************************)
\* the test of line 167 with <= for <
light_on_or_equal(reading, maxl, minl) ==
  Abs(reading - maxl) <= Abs(reading - minl)

\* line 167: the reading is closer to max_light than to min_light
light_on(reading, maxl, minl) == Abs(reading - maxl) < Abs(reading - minl)

\* the loop of trim_morse_list stopping at a list of one entry
RECURSIVE trim_loop_keeps_one(_, _)
trim_loop_keeps_one(morse_list, i) ==
  IF Len(morse_list) <= 1 THEN morse_list
  ELSE IF morse_list[i + 1] > 0 THEN morse_list
  ELSE trim_loop_keeps_one(ButLast(morse_list), i - 1)

\* lines 249-254, with i the 0-based index the code keeps
RECURSIVE trim_loop(_, _)
trim_loop(morse_list, i) ==
  IF morse_list = <<>> THEN morse_list
  ELSE IF morse_list[i + 1] > 0 THEN morse_list
  ELSE trim_loop(ButLast(morse_list), i - 1)

\* trim_morse_list leaving its argument as it is
trim_morse_list_untrimmed(morse_list) == morse_list

\* lines 240-256
trim_morse_list(morse_list) == trim_loop(morse_list, Len(morse_list) - 1)

\* the loop without the 0 appended after a flushed on-run (line 172)
RECURSIVE lengths_loop_no_gap(_, _, _, _, _, _)
lengths_loop_no_gap(rs, k, maxl, minl, morse_length, morse_lengths) ==
  IF k > Len(rs)
    THEN [morse_length |-> morse_length, morse_lengths |-> morse_lengths]
  ELSE IF light_on(rs[k], maxl, minl)
    THEN lengths_loop_no_gap(rs, k + 1, maxl, minl, morse_length + 1,
                             morse_lengths)
  ELSE lengths_loop_no_gap(rs, k + 1, maxl, minl, 0,
                           Append(morse_lengths, morse_length))

\* lines 165-173: the loop over the readings from position k on
RECURSIVE lengths_loop(_, _, _, _, _, _)
lengths_loop(rs, k, maxl, minl, morse_length, morse_lengths) ==
  IF k > Len(rs)
    THEN [morse_length |-> morse_length, morse_lengths |-> morse_lengths]
  ELSE IF light_on(rs[k], maxl, minl)
    THEN lengths_loop(rs, k + 1, maxl, minl, morse_length + 1, morse_lengths)
  ELSE IF morse_length > 0
    THEN lengths_loop(rs, k + 1, maxl, minl, 0,
                      morse_lengths \o <<morse_length, 0>>)
  ELSE lengths_loop(rs, k + 1, maxl, minl, morse_length,
                    Append(morse_lengths, morse_length))

\* the encoding without the flush of an on-run that ends the readings
\* (lines 176-177)
morse_lengths_unflushed(rs, maxl, minl) ==
  trim_morse_list(lengths_loop(rs, 1, maxl, minl, 0, <<>>).morse_lengths)

\* lines 161-181: the run-length list of the readings, trimmed
morse_lengths_of(rs, maxl, minl) ==
  LET r == lengths_loop(rs, 1, maxl, minl, 0, <<>>)
      flushed == IF r.morse_length > 0
                   THEN Append(r.morse_lengths, r.morse_length)
                   ELSE r.morse_lengths
  IN trim_morse_list(flushed)

(***************************************************************************)
(* translate_morse_code: the letter segmenter.  i is the code's 0-based    *)
(* index, so morse_lengths[i] of the code is ml[i + 1] here.               *)
(***************************************************************************)
\* the segmenter ending a letter after two zeros instead of three
RECURSIVE segment_loop_two(_, _, _, _, _)
segment_loop_two(ml, i, break_time, curr_letter, letters) ==
  IF i >= Len(ml) THEN letters
  ELSE
    LET last_index == Len(ml) - 1
        curr_length == ml[i + 1]
        next_length == IF i < last_index THEN ml[i + 2] ELSE 0
        take == curr_length # 0 /\ next_length = 0
        letter1 == IF take THEN curr_letter \o <<curr_length, next_length>>
                           ELSE curr_letter
        break1 == IF take THEN 0
                  ELSE IF curr_length = 0 THEN break_time + 1
                  ELSE break_time
        emit == (break1 = 2 \/ i = last_index) /\ letter1 # <<>>
    IN IF emit
         THEN segment_loop_two(ml, i + 1, break1, <<>>,
                               Append(letters, ButLast(letter1)))
         ELSE segment_loop_two(ml, i + 1, break1, letter1, letters)

\* the segmenter leaving the trailing 0 on each letter (no pop, line 218)
RECURSIVE segment_loop_keep_gap(_, _, _, _, _)
segment_loop_keep_gap(ml, i, break_time, curr_letter, letters) ==
  IF i >= Len(ml) THEN letters
  ELSE
    LET last_index == Len(ml) - 1
        curr_length == ml[i + 1]
        next_length == IF i < last_index THEN ml[i + 2] ELSE 0
        take == curr_length # 0 /\ next_length = 0
        letter1 == IF take THEN curr_letter \o <<curr_length, next_length>>
                           ELSE curr_letter
        break1 == IF take THEN 0
                  ELSE IF curr_length = 0 THEN break_time + 1
                  ELSE break_time
        emit == (break1 = 3 \/ i = last_index) /\ letter1 # <<>>
    IN IF emit
         THEN segment_loop_keep_gap(ml, i + 1, break1, <<>>,
                           Append(letters, letter1))
         ELSE segment_loop_keep_gap(ml, i + 1, break1, letter1, letters)

\* the segmenter keeping the run-lengths alone, without the gaps
RECURSIVE segment_loop_strip_gaps(_, _, _, _, _)
segment_loop_strip_gaps(ml, i, break_time, curr_letter, letters) ==
  IF i >= Len(ml) THEN letters
  ELSE
    LET last_index == Len(ml) - 1
        curr_length == ml[i + 1]
        next_length == IF i < last_index THEN ml[i + 2] ELSE 0
        take == curr_length # 0 /\ next_length = 0
        letter1 == IF take THEN Append(curr_letter, curr_length)
                           ELSE curr_letter
        break1 == IF take THEN 0
                  ELSE IF curr_length = 0 THEN break_time + 1
                  ELSE break_time
        emit == (break1 = 3 \/ i = last_index) /\ letter1 # <<>>
    IN IF emit
         THEN segment_loop_strip_gaps(ml, i + 1, break1, <<>>,
                           Append(letters, letter1))
         ELSE segment_loop_strip_gaps(ml, i + 1, break1, letter1, letters)

RECURSIVE segment_loop(_, _, _, _, _)
segment_loop(ml, i, break_time, curr_letter, letters) ==
  IF i >= Len(ml) THEN letters
  ELSE
    LET last_index == Len(ml) - 1
        curr_length == ml[i + 1]
        next_length == IF i < last_index THEN ml[i + 2] ELSE 0
        take == curr_length # 0 /\ next_length = 0
        letter1 == IF take THEN curr_letter \o <<curr_length, next_length>>
                           ELSE curr_letter
        break1 == IF take THEN 0
                  ELSE IF curr_length = 0 THEN break_time + 1
                  ELSE break_time
        emit == (break1 = 3 \/ i = last_index) /\ letter1 # <<>>
    IN IF emit
         THEN segment_loop(ml, i + 1, break1, <<>>,
                           Append(letters, ButLast(letter1)))
         ELSE segment_loop(ml, i + 1, break1, letter1, letters)

\* lines 190-220: the letters of a run
segment(ml) == segment_loop(ml, 0, 0, <<>>, <<>>)

(***************************************************************************)
(* get_word_string: a word is the sequence of its one-character strings.   *)
(***************************************************************************)
\* lines 234-236: the keys appended for one letter, scanning entries k..26
RECURSIVE match_keys(_, _)
match_keys(letter, k) ==
  IF k > Len(morse_code) THEN <<>>
  ELSE (IF letter = morse_code[k].value THEN <<morse_code[k].key>> ELSE <<>>)
       \o match_keys(letter, k + 1)

\* get_word_string putting a ? where a letter matches no entry
RECURSIVE word_loop_placeholder(_, _)
word_loop_placeholder(letters, i) ==
  IF i > Len(letters) THEN <<>>
  ELSE (IF match_keys(letters[i], 1) = <<>> THEN <<"?">>
                                            ELSE match_keys(letters[i], 1))
       \o word_loop_placeholder(letters, i + 1)

\* lines 230-237
RECURSIVE word_loop(_, _)
word_loop(letters, i) ==
  IF i > Len(letters) THEN <<>>
  ELSE match_keys(letters[i], 1) \o word_loop(letters, i + 1)

get_word_string(letters) == word_loop(letters, 1)

\* lines 184-222
translate_morse_code(ml) == get_word_string(segment(ml))

(***************************************************************************)
(* demo: what is shown, played and written, in order.                      *)
(***************************************************************************)
Event(op, n, s) == [op |-> op, n |-> n, s |-> s]

\* lines 291-295: a beep of 0.25*length seconds for a positive length, a
\* pause of 0.25 seconds for a 0 (n counts quarter seconds)
RECURSIVE replay(_, _)
replay(ml, k) ==
  IF k > Len(ml) THEN <<>>
  ELSE <<(IF ml[k] > 0 THEN Event("beep", ml[k], <<>>)
                        ELSE Event("wait", 1, <<>>))>>
       \o replay(ml, k + 1)

\* demo presenting every message as a translated one
present_unconditional(msg, ml) ==
  <<Event("print", 0, msg),
    Event("show_image", 0, <<"HAPPY">>), Event("wait", 20, <<>>)>>
  \o replay(ml, 1)
  \o <<Event("write", 0, msg)>>

\* lines 285-299
present(msg, ml) ==
  <<Event("print", 0, msg)>> \o
  (IF Len(msg) > 0
     THEN <<Event("show_image", 0, <<"HAPPY">>), Event("wait", 20, <<>>)>>
          \o replay(ml, 1)
          \o <<Event("write", 0, msg)>>
     ELSE <<Event("show_image", 0, <<"SAD">>)>>)

(***************************************************************************)
(* State.                                                                  *)
(***************************************************************************)
VARIABLES
  pc,                \* where the program is
  max_light,         \* calibrate(): reading with the light on
  min_light,         \* calibrate(): reading with the light off
  duration,          \* follow_light's parameter
  now,               \* what timer.now() returns at the next loop test
  ticks,             \* loop iterations run while the timer stood still
  left_error_sum, right_error_sum,
  left_prev_error, right_prev_error,
  left_light, right_light,            \* the readings of the latest tick
  left_error, right_error,            \* its errors, as used for the power
  left_error_diff, right_error_diff,  \* its differential terms, as used
  left_power, right_power,            \* its computed powers
  arrived_before,    \* history: a sensor read max_light on the tick before it
  left_motor, right_motor,            \* the latest command each motor got
  left_stops, right_stops,            \* stop() calls each motor got
  num_readings,      \* read_morse_with_pauses' parameter
  readings,          \* the readings taken so far
  morse,             \* the run returned by read_morse_with_pauses
  letters,           \* the letter patterns of translate_morse_code
  message,           \* the translated word
  out,               \* what demo has printed, shown, played and written
  sent               \* the word keyed in (word-sending harness only)

pid_vars == <<left_error_sum, right_error_sum, left_prev_error, right_prev_error,
              left_light, right_light, left_error, right_error,
              left_error_diff, right_error_diff, left_power, right_power,
              arrived_before>>

motor_vars == <<left_motor, right_motor, left_stops, right_stops>>

timer_vars == <<duration, now, ticks>>

morse_vars == <<num_readings, readings, morse, letters, message, out, sent>>

vars == <<pc, max_light, min_light, timer_vars, pid_vars, motor_vars, morse_vars>>

Motor(cmd, speed) == [cmd |-> cmd, speed |-> speed]

\* follow_light's locals hold nothing outside a call
PidIdle ==
  /\ left_error_sum = 0 /\ right_error_sum = 0
  /\ left_prev_error = 0 /\ right_prev_error = 0
  /\ left_light = 0 /\ right_light = 0
  /\ left_error = 0 /\ right_error = 0
  /\ left_error_diff = 0 /\ right_error_diff = 0
  /\ left_power = 0 /\ right_power = 0
  /\ arrived_before = FALSE

MorseIdle ==
  /\ readings = <<>> /\ morse = <<>> /\ letters = <<>>
  /\ message = <<>> /\ out = <<>> /\ sent = <<>>

\* the program at the start of demo()
Init ==
  /\ pc = "calibrate"
  /\ max_light = 0 /\ min_light = 0
  /\ duration = 0 /\ now = 0 /\ ticks = 0
  /\ PidIdle
  /\ left_motor = Motor("none", 0) /\ right_motor = Motor("none", 0)
  /\ left_stops = 0 /\ right_stops = 0
  /\ num_readings = 0
  /\ MorseIdle

(***************************************************************************)
(* Actions.                                                                *)
(***************************************************************************)
\* lines 54-72 and 270: the two calibration readings
calibrate ==
  /\ pc = "calibrate"
  /\ \E maxl \in CalLevels, minl \in CalLevels :
       /\ max_light' = maxl
       /\ min_light' = minl
  /\ pc' = "follow_light"
  /\ UNCHANGED <<timer_vars, pid_vars, motor_vars, morse_vars>>

\* lines 75 and 82-90: follow_light is called with some duration, the PID
\* variables are zeroed and the timer is reset
follow_light_begin ==
  /\ pc = "follow_light"
  /\ duration' \in 0..MaxDuration
  /\ left_error_sum' = 0 /\ right_error_sum' = 0
  /\ left_prev_error' = 0 /\ right_prev_error' = 0
  /\ now' = 0
  /\ pc' = "loop"
  /\ UNCHANGED <<max_light, min_light, ticks,
                 left_light, right_light, left_error, right_error,
                 left_error_diff, right_error_diff, left_power, right_power,
                 arrived_before, motor_vars, morse_vars>>

\* the loop body remembering the errors as read, before the arrival branch
tick_with_raw_prev(ll, rl, dt) ==
  LET a == arrival(max_light - ll, max_light - rl,
                   left_error_sum, right_error_sum)
      d == differential(a.left_error, a.right_error,
                        left_prev_error, right_prev_error)
      lp == power(a.left_error, a.left_error_sum, d.left_error_diff)
      rp == power(a.right_error, a.right_error_sum, d.right_error_diff)
  IN /\ left_light' = ll /\ right_light' = rl
     /\ left_error' = a.left_error /\ right_error' = a.right_error
     /\ left_error_sum' = a.left_error_sum
     /\ right_error_sum' = a.right_error_sum
     /\ left_error_diff' = d.left_error_diff
     /\ right_error_diff' = d.right_error_diff
     /\ left_prev_error' = max_light - ll
     /\ right_prev_error' = max_light - rl
     /\ left_power' = lp /\ right_power' = rp
     /\ left_motor' = Motor("start", -lp)
     /\ right_motor' = Motor("start", rp)
     /\ now' = now + dt
     /\ ticks' = IF dt = 0 THEN ticks + 1 ELSE ticks
     /\ arrived_before' = (right_motor.cmd = "start"
                            /\ (left_light = max_light \/ right_light = max_light))

\* lines 93-129: one iteration of the control loop, for readings ll and rl,
\* during which the timer advances by dt
tick_with(ll, rl, dt) ==
  LET a == arrival(max_light - ll, max_light - rl,
                   left_error_sum, right_error_sum)
      d == differential(a.left_error, a.right_error,
                        left_prev_error, right_prev_error)
      lp == power(a.left_error, a.left_error_sum, d.left_error_diff)
      rp == power(a.right_error, a.right_error_sum, d.right_error_diff)
  IN /\ left_light' = ll /\ right_light' = rl
     /\ left_error' = a.left_error /\ right_error' = a.right_error
     /\ left_error_sum' = a.left_error_sum
     /\ right_error_sum' = a.right_error_sum
     /\ left_error_diff' = d.left_error_diff
     /\ right_error_diff' = d.right_error_diff
     /\ left_prev_error' = a.left_error
     /\ right_prev_error' = a.right_error
     /\ left_power' = lp /\ right_power' = rp
     /\ left_motor' = Motor("start", -lp)
     /\ right_motor' = Motor("start", rp)
     /\ now' = now + dt
     /\ ticks' = IF dt = 0 THEN ticks + 1 ELSE ticks
     /\ arrived_before' = (right_motor.cmd = "start"
                            /\ (left_light = max_light \/ right_light = max_light))

\* a loop that never looks at the timer
loop_guard_always == TRUE

\* line 93: the loop runs while timer.now() <= duration
loop_guard == now <= duration

tick ==
  /\ pc = "loop"
  /\ loop_guard
  /\ \E ll \in TrackLevels, rl \in TrackLevels, dt \in {0, 1} :
       /\ dt = 0 => ticks < MaxTicks
       /\ tick_with(ll, rl, dt)
  /\ UNCHANGED <<pc, max_light, min_light, duration, left_stops, right_stops,
                 morse_vars>>

\* lines 93 and 131: the loop ends and the left motor is stopped
stop_left ==
  /\ pc = "loop"
  /\ ~loop_guard
  /\ left_motor' = Motor("stop", 0)
  /\ left_stops' = left_stops + 1
  /\ pc' = "stop_right"
  /\ UNCHANGED <<max_light, min_light, timer_vars, pid_vars,
                 right_motor, right_stops, morse_vars>>

\* follow_light returning without the right motor having been stopped
stop_right_missing ==
  /\ pc = "stop_right"
  /\ duration' = 0 /\ now' = 0 /\ ticks' = 0
  /\ left_error_sum' = 0 /\ right_error_sum' = 0
  /\ left_prev_error' = 0 /\ right_prev_error' = 0
  /\ left_light' = 0 /\ right_light' = 0
  /\ left_error' = 0 /\ right_error' = 0
  /\ left_error_diff' = 0 /\ right_error_diff' = 0
  /\ left_power' = 0 /\ right_power' = 0
  /\ arrived_before' = FALSE
  /\ pc' = "read_morse_with_pauses"
  /\ UNCHANGED <<max_light, min_light, motor_vars, morse_vars>>

\* line 132 and the return of follow_light: its parameter and locals go away
\* and the timer is not read again
stop_right ==
  /\ pc = "stop_right"
  /\ duration' = 0 /\ now' = 0 /\ ticks' = 0
  /\ right_motor' = Motor("stop", 0)
  /\ right_stops' = right_stops + 1
  /\ left_error_sum' = 0 /\ right_error_sum' = 0
  /\ left_prev_error' = 0 /\ right_prev_error' = 0
  /\ left_light' = 0 /\ right_light' = 0
  /\ left_error' = 0 /\ right_error' = 0
  /\ left_error_diff' = 0 /\ right_error_diff' = 0
  /\ left_power' = 0 /\ right_power' = 0
  /\ arrived_before' = FALSE
  /\ pc' = "read_morse_with_pauses"
  /\ UNCHANGED <<max_light, min_light, left_motor, left_stops, morse_vars>>

\* lines 135 and 142-144: read_morse_with_pauses is called with some
\* num_readings and starts with no readings
read_morse_begin ==
  /\ pc = "read_morse_with_pauses"
  /\ num_readings' \in 0..NumReadings
  /\ readings' = <<>>
  /\ pc' = "read_morse"
  /\ UNCHANGED <<max_light, min_light, timer_vars, pid_vars, motor_vars,
                 morse, letters, message, out, sent>>

\* lines 147-159: one reading of the left sensor is taken and stored
take_reading ==
  /\ pc = "read_morse"
  /\ Len(readings) < num_readings
  /\ \E reading \in MorseLevels : readings' = Append(readings, reading)
  /\ UNCHANGED <<pc, max_light, min_light, timer_vars, pid_vars, motor_vars,
                 num_readings, morse, letters, message, out, sent>>

\* lines 161-181: the readings are encoded and the run is trimmed
encode ==
  /\ pc = "read_morse"
  /\ Len(readings) >= num_readings
  /\ morse' = morse_lengths_of(readings, max_light, min_light)
  /\ pc' = "translate"
  /\ UNCHANGED <<max_light, min_light, timer_vars, pid_vars, motor_vars,
                 num_readings, readings, letters, message, out, sent>>

\* line 284: translate_morse_code(morse)
translate ==
  /\ pc = "translate"
  /\ letters' = segment(morse)
  /\ message' = translate_morse_code(morse)
  /\ pc' = "present"
  /\ UNCHANGED <<max_light, min_light, timer_vars, pid_vars, motor_vars,
                 num_readings, readings, morse, out, sent>>

\* lines 285-299: the message is printed and the result presented
show ==
  /\ pc = "present"
  /\ out' = present(message, morse)
  /\ pc' = "done"
  /\ UNCHANGED <<max_light, min_light, timer_vars, pid_vars, motor_vars,
                 num_readings, readings, morse, letters, message, sent>>

Next ==
  \/ calibrate
  \/ follow_light_begin
  \/ tick
  \/ stop_left
  \/ stop_right
  \/ read_morse_begin
  \/ take_reading
  \/ encode
  \/ translate
  \/ show

Spec == Init /\ [][Next]_vars

(***************************************************************************)
(* Harness: get_word_string called on its own with given letter patterns.  *)
(***************************************************************************)
\* the state demo leaves behind once follow_light has returned
AfterTracking ==
  /\ duration = 0 /\ now = 0 /\ ticks = 0
  /\ PidIdle
  /\ left_motor = Motor("stop", 0) /\ right_motor = Motor("stop", 0)
  /\ left_stops = 1 /\ right_stops = 1

\* all sequences over S of length at most n
SeqsUpTo(S, n) == UNION {[1..k -> S] : k \in 0..n}

\* patterns that are no dictionary entry
OtherPatterns ==
  {<<>>, <<0>>, <<2>>, <<1, 0>>, <<1, 3>>, <<3, 0, 3, 0, 3, 0, 3, 0, 3>>}

\* the patterns handed to get_word_string: every entry and some others
TestPatterns ==
  {morse_code_items[k].value : k \in 1..Len(morse_code_items)}
    \cup OtherPatterns

InitTranslate ==
  /\ pc = "get_word_string"
  /\ max_light = 90 /\ min_light = 10
  /\ AfterTracking
  /\ num_readings = 0
  /\ readings = <<>> /\ morse = <<>> /\ message = <<>> /\ out = <<>>
  /\ sent = <<>>
  /\ letters \in SeqsUpTo(TestPatterns, MaxLetters)

\* lines 225-237: get_word_string(letters) returns
call_get_word_string ==
  /\ pc = "get_word_string"
  /\ message' = get_word_string(letters)
  /\ pc' = "returned"
  /\ UNCHANGED <<max_light, min_light, timer_vars, pid_vars, motor_vars,
                 num_readings, readings, morse, letters, out, sent>>

NextTranslate == call_get_word_string

SpecTranslate == InitTranslate /\ [][NextTranslate]_vars

(***************************************************************************)
(* Harness: a word is keyed in with the light and decoded.                 *)
(***************************************************************************)
\* International Morse code: the symbols of each letter, 1 a dot, 3 a dash
InternationalMorse(c) ==
  CASE c = "A" -> <<1, 3>>       [] c = "B" -> <<3, 1, 1, 1>>
    [] c = "C" -> <<3, 1, 3, 1>> [] c = "D" -> <<3, 1, 1>>
    [] c = "E" -> <<1>>          [] c = "F" -> <<1, 1, 3, 1>>
    [] c = "G" -> <<3, 3, 1>>    [] c = "H" -> <<1, 1, 1, 1>>
    [] c = "I" -> <<1, 1>>       [] c = "J" -> <<1, 3, 3, 3>>
    [] c = "K" -> <<3, 1, 3>>    [] c = "L" -> <<1, 3, 1, 1>>
    [] c = "M" -> <<3, 3>>       [] c = "N" -> <<3, 1>>
    [] c = "O" -> <<3, 3, 3>>    [] c = "P" -> <<1, 3, 3, 1>>
    [] c = "Q" -> <<3, 3, 1, 3>> [] c = "R" -> <<1, 3, 1>>
    [] c = "S" -> <<1, 1, 1>>    [] c = "T" -> <<3>>
    [] c = "U" -> <<1, 1, 3>>    [] c = "V" -> <<1, 1, 1, 3>>
    [] c = "W" -> <<1, 3, 3>>    [] c = "X" -> <<3, 1, 1, 3>>
    [] c = "Y" -> <<3, 1, 3, 3>> [] c = "Z" -> <<3, 3, 1, 1>>

Alphabet ==
  {"A", "B", "C", "D", "E", "F", "G", "H", "I", "J", "K", "L", "M",
   "N", "O", "P", "Q", "R", "S", "T", "U", "V", "W", "X", "Y", "Z"}

\* the letters of the longer words
ShortAlphabet == {"E", "O", "S"}

\* the words keyed in: all up to MaxWordLen letters, and those over the
\* short alphabet up to one letter more
Words ==
  SeqsUpTo(Alphabet, MaxWordLen) \cup SeqsUpTo(ShortAlphabet, MaxWordLen + 1)

\* n samples with the light on, n samples with the light off
LightOn(n) == [k \in 1..n |-> 90]
LightOff(n) == [k \in 1..n |-> 10]

\* the samples of one letter: its symbols, one off-sample between two
RECURSIVE KeyLetter(_)
KeyLetter(symbols) ==
  IF symbols = <<>> THEN <<>>
  ELSE LightOn(symbols[1])
       \o (IF Len(symbols) > 1 THEN LightOff(1) ELSE <<>>)
       \o KeyLetter(Tail(symbols))

\* the samples of a word: its letters, three off-samples between two
RECURSIVE KeyWord(_)
KeyWord(w) ==
  IF w = <<>> THEN <<>>
  ELSE KeyLetter(InternationalMorse(w[1]))
       \o (IF Len(w) > 1 THEN LightOff(3) ELSE <<>>)
       \o KeyWord(Tail(w))

InitWord ==
  /\ pc = "read_morse"
  /\ max_light = 90 /\ min_light = 10
  /\ AfterTracking
  /\ morse = <<>> /\ letters = <<>> /\ message = <<>> /\ out = <<>>
  /\ sent \in Words
  /\ \E trail \in 0..MaxTrail : readings = KeyWord(sent) \o LightOff(trail)
  /\ num_readings = Len(readings)

NextWord == encode \/ translate

SpecWord == InitWord /\ [][NextWord]_vars

(***************************************************************************)
(* Harness: translate_morse_code called on its own with a given run.       *)
(***************************************************************************)
\* the entries of the runs handed to translate_morse_code
RunEntries == {0, 1, 2, 3}

InitSegment ==
  /\ pc = "translate"
  /\ max_light = 90 /\ min_light = 10
  /\ AfterTracking
  /\ num_readings = 0
  /\ readings = <<>> /\ letters = <<>> /\ message = <<>> /\ out = <<>>
  /\ sent = <<>>
  /\ morse \in SeqsUpTo(RunEntries, MaxRun)

NextSegment == translate

SpecSegment == InitSegment /\ [][NextSegment]_vars

(***************************************************************************)
(* follow_light alone, with a timer that advances and calls that return.   *)
(***************************************************************************)
\* an iteration of the control loop during which the timer advances
tick_advancing == tick /\ now' > now

NextFollow ==
  \/ calibrate
  \/ follow_light_begin
  \/ tick
  \/ stop_left
  \/ stop_right

FairFollow ==
  /\ WF_vars(tick_advancing)
  /\ WF_vars(stop_left)
  /\ WF_vars(stop_right)

SpecFollow == Init /\ [][NextFollow]_vars /\ FairFollow

(***************************************************************************)
(* Properties of follow_light.                                             *)
(***************************************************************************)
\* the control loop has run at least one iteration and follow_light has not
\* returned: the tick variables hold the latest iteration
Ticked == pc \in {"loop", "stop_right"} /\ right_motor.cmd = "start"

BeforeLoopExit == pc \in {"calibrate", "follow_light", "loop"}

AfterFollowLight ==
  pc \in {"read_morse_with_pauses", "read_morse", "translate", "present", "done"}

\* C1: follow_light stops each motor exactly once, only after the control
\* loop has exited, and no motor is started again after its stop: no stop
\* has been issued while the loop runs, the left motor has its one stop and
\* the right none between lines 131 and 132, both have exactly one from then
\* on, and a motor that has been stopped has stop as its latest command.
C1_StopOncePerSide ==
  /\ BeforeLoopExit => left_stops = 0 /\ right_stops = 0
  /\ pc = "stop_right" => left_stops = 1 /\ right_stops = 0
  /\ AfterFollowLight => left_stops = 1 /\ right_stops = 1
  /\ left_stops > 0 => left_motor = Motor("stop", 0)
  /\ right_stops > 0 => right_motor = Motor("stop", 0)

\* C1 witness: the loop has run and exited, the left motor has been stopped
\* and the right motor is still driven at a nonzero speed
C1_Witness ==
  /\ pc = "stop_right"
  /\ left_stops = 1
  /\ right_motor.cmd = "start" /\ right_motor.speed # 0

\* a step that is one iteration of the control loop
TickStep == pc = "loop" /\ pc' = "loop" /\ left_motor'.cmd = "start"

\* C2 as stated: on a tick where one side's reading equals max_light, that
\* side's error and error sum are 0 and the other side is unaffected: when
\* its own error is nonzero it keeps it and adds it to its error sum.
C2_OtherSideUnaffected ==
  [][TickStep =>
       /\ left_light' = max_light =>
            /\ left_error' = 0 /\ left_error_sum' = 0
            /\ right_light' # max_light =>
                 /\ right_error' = max_light - right_light'
                 /\ right_error_sum' = right_error_sum + right_error'
       /\ right_light' = max_light =>
            /\ right_error' = 0 /\ right_error_sum' = 0
            /\ left_light' # max_light =>
                 /\ left_error' = max_light - left_light'
                 /\ left_error_sum' = left_error_sum + left_error']_vars

\* C2 amended: on a tick where either side's reading equals max_light, both
\* sides' errors are 0 and both sides' error sums are reset to 0, whatever
\* the other side read.
C2_BothSidesReset ==
  Ticked /\ (left_light = max_light \/ right_light = max_light) =>
    /\ left_error = 0 /\ left_error_sum = 0
    /\ right_error = 0 /\ right_error_sum = 0

\* C2 witness: a tick where only the left reading equals max_light and the
\* right side has been reset all the same
C2_Witness ==
  /\ Ticked
  /\ left_light = max_light /\ right_light # max_light
  /\ right_error = 0 /\ right_error_sum = 0

\* C3: on every tick where either sensor reads a value >= max_light both
\* motors are commanded speed 0.
C3_StopAtMaxLight ==
  Ticked /\ (left_light >= max_light \/ right_light >= max_light) =>
    left_motor.speed = 0 /\ right_motor.speed = 0

(***************************************************************************)
(* Properties of the run-length encoder and of the segmenter.              *)
(***************************************************************************)
\* read_morse_with_pauses has returned its run
Encoded == pc \in {"translate", "present", "done"}

\* translate_morse_code has returned
Translated == pc \in {"present", "done"}

\* the on/off classification of the readings, one flag per reading
OnOff == [k \in 1..Len(readings) |-> light_on(readings[k], max_light, min_light)]

\* a sequence of flags without its trailing off-samples
RECURSIVE StripOff(_)
StripOff(bs) ==
  IF bs = <<>> \/ Last(bs) THEN bs ELSE StripOff(ButLast(bs))

\* n on-samples
OnRun(n) == [k \in 1..n |-> TRUE]

\* a run expanded: n on-samples for a positive entry n, one off-sample for a 0
RECURSIVE Expand(_)
Expand(run) ==
  IF run = <<>> THEN <<>>
  ELSE (IF run[1] > 0 THEN OnRun(run[1]) ELSE <<FALSE>>) \o Expand(Tail(run))

\* C5: the run returned by the encoder, expanded, is the classified input
\* without its trailing off-samples, and no two positive entries are adjacent.
C5_FaithfulRunLength ==
  Encoded =>
    /\ Expand(morse) = StripOff(OnOff)
    /\ \A k \in 1..(Len(morse) - 1) : morse[k] > 0 => morse[k + 1] = 0

\* C5 witness: [on,on,on,off,off,off,on] has been encoded as [3,0,0,0,1]
C5_Witness ==
  /\ Encoded
  /\ OnOff = <<TRUE, TRUE, TRUE, FALSE, FALSE, FALSE, TRUE>>
  /\ morse = <<3, 0, 0, 0, 1>>

\* C6: the run returned by the encoder is empty or ends in a positive entry.
C6_NoTrailingZero == Encoded => morse = <<>> \/ Last(morse) > 0

\* C6 witness: a sequence with an on-sample that ends in two off-samples has
\* been encoded
C6_Witness ==
  /\ Encoded
  /\ Len(OnOff) >= 3
  /\ OnOff[Len(OnOff) - 2] /\ ~OnOff[Len(OnOff) - 1] /\ ~OnOff[Len(OnOff)]
  /\ morse # <<>>

\* the positions of the positive entries of a run, in order
RECURSIVE PositiveAt(_, _)
PositiveAt(run, k) ==
  IF k > Len(run) THEN <<>>
  ELSE (IF run[k] > 0 THEN <<k>> ELSE <<>>) \o PositiveAt(run, k + 1)

\* the positive entries of a run, in order
Positives(run) == LET at == PositiveAt(run, 1)
                  IN [n \in 1..Len(at) |-> run[at[n]]]

\* the positive entries of a sequence of letters, in order, each with the
\* number of the letter that holds it
RECURSIVE Placed(_, _)
Placed(ls, j) ==
  IF j > Len(ls) THEN <<>>
  ELSE LET ps == Positives(ls[j])
       IN [n \in 1..Len(ps) |-> [length |-> ps[n], letter |-> j]]
          \o Placed(ls, j + 1)

\* C7: the letters hold the positive entries of the run in the order of the
\* run, and two successive positive entries are in the same letter exactly
\* when fewer than 3 zeros separate them.
C7_BoundaryAtThreeZeros ==
  Translated =>
    LET at == PositiveAt(morse, 1)
        placed == Placed(letters, 1)
    IN /\ Len(placed) = Len(at)
       /\ \A n \in 1..Len(at) : placed[n].length = morse[at[n]]
       /\ \A n \in 1..(Len(at) - 1) :
            (placed[n].letter = placed[n + 1].letter)
              <=> (at[n + 1] - at[n] - 1 < 3)

\* C7 witness: [3,0,0,0,1] has been segmented into [3] and [1]
C7_Witness ==
  /\ Translated
  /\ morse = <<3, 0, 0, 0, 1>>
  /\ letters = << <<3>>, <<1>> >>

(***************************************************************************)
(* Properties of demo.                                                     *)
(***************************************************************************)
ImagesShown == {k \in 1..Len(out) : out[k].op = "show_image"}

\* C10: a non-empty message gets the HAPPY image, then the run replayed entry
\* by entry in run order (a beep for a positive entry, a pause for a 0), then
\* the message written; an empty message gets the SAD image and no replay and
\* no writing; exactly one image is shown.
C10_HappyOrSad ==
  pc = "done" =>
    /\ Cardinality(ImagesShown) = 1
    /\ message # <<>> =>
         /\ Len(out) = Len(morse) + 4
         /\ out[2] = Event("show_image", 0, <<"HAPPY">>)
         /\ \A k \in 1..Len(morse) :
              out[3 + k] = IF morse[k] > 0 THEN Event("beep", morse[k], <<>>)
                                           ELSE Event("wait", 1, <<>>)
         /\ out[Len(out)] = Event("write", 0, message)
    /\ message = <<>> =>
         /\ Len(out) = 2
         /\ out[2] = Event("show_image", 0, <<"SAD">>)

\* C10 witness: the run [1,0,3] was translated to A and replayed as a beep,
\* a pause and a longer beep
C10_Witness ==
  /\ pc = "done"
  /\ morse = <<1, 0, 3>>
  /\ message = <<"A">>
  /\ Len(out) = 7

(***************************************************************************)
(* Properties of the translator and of the whole decoder.                  *)
(***************************************************************************)
\* C4: a word keyed in International Morse code (a dot 1 on-sample, a dash 3,
\* 1 off-sample between the symbols of a letter, 3 between letters, any
\* trailing off-samples) is decoded by the encoder, the segmenter and the
\* translator to that word.
C4_RoundTrip == Translated => message = sent

\* C4 witness: SOS has been keyed in and decoded
C4_Witness ==
  /\ Translated
  /\ sent = <<"S", "O", "S">>
  /\ morse = <<1, 0, 1, 0, 1, 0, 0, 0, 3, 0, 3, 0, 3, 0, 0, 0, 1, 0, 1, 0, 1>>
  /\ message = <<"S", "O", "S">>

\* the dictionary entries whose pattern is the given one
EntriesFor(pattern) ==
  {k \in 1..Len(morse_code) : morse_code[k].value = pattern}

\* the characters of the patterns that are a dictionary entry, in input order
RECURSIVE KnownLetters(_)
KnownLetters(ls) ==
  IF ls = <<>> THEN <<>>
  ELSE (IF EntriesFor(ls[1]) = {} THEN <<>>
        ELSE <<morse_code[CHOOSE k \in EntriesFor(ls[1]) : TRUE].key>>)
       \o KnownLetters(Tail(ls))

\* C8: get_word_string returns the characters of exactly the patterns that
\* equal a dictionary entry, in input order; a pattern equal to no entry
\* contributes nothing.
C8_UnknownSkipped == pc = "returned" => message = KnownLetters(letters)

\* C8 witness: a known pattern followed by an unknown one gave the known
\* letter alone
C8_Witness ==
  /\ pc = "returned"
  /\ letters = << <<3>>, <<3, 0, 3, 0, 3, 0, 3, 0, 3>> >>
  /\ message = <<"T">>

\* C9: the dictionary has 26 entries with pairwise distinct patterns, every
\* letter pattern matches at most one, and the text is no longer than the
\* number of letter patterns.
C9_PatternsDistinct ==
  /\ Len(morse_code) = 26
  /\ \A j, k \in 1..Len(morse_code) :
       j # k => morse_code[j].value # morse_code[k].value
  /\ \A n \in 1..Len(letters) : Cardinality(EntriesFor(letters[n])) <= 1
  /\ pc = "returned" => Len(message) <= Len(letters)

\* C9 witness: two known patterns gave two characters
C9_Witness ==
  /\ pc = "returned"
  /\ letters = << <<1, 0, 1>>, <<1, 0, 1, 0, 1>> >>
  /\ message = <<"I", "S">>

(***************************************************************************)
(* Further properties of follow_light.                                     *)
(***************************************************************************)
\* C11: on every tick, with each side's errorDiff its error (after the
\* arrival branch) minus its previous error, both differential terms used
\* for the powers are 0 if either errorDiff is 0, and each side uses its own
\* errorDiff if neither is.
C11_DiffOverride ==
  [][TickStep =>
       LET ld == left_error' - left_prev_error
           rd == right_error' - right_prev_error
       IN /\ (ld = 0 \/ rd = 0) =>
               left_error_diff' = 0 /\ right_error_diff' = 0
          /\ (ld # 0 /\ rd # 0) =>
               left_error_diff' = ld /\ right_error_diff' = rd
          /\ left_power' = power(left_error', left_error_sum', left_error_diff')
          /\ right_power' =
               power(right_error', right_error_sum', right_error_diff')]_vars

\* C11 witness: the left error stayed at 1 while the right error went from 1
\* to -5 (its sum is 1 - 5), and the right side's differential term is 0 too
C11_Witness ==
  /\ Ticked
  /\ left_error = 1 /\ left_error_diff = 0
  /\ right_error = -5 /\ right_error_sum = -4 /\ right_error_diff = 0

\* the integer p that x = n / GainScale becomes when its fractional part is
\* discarded: p and x have no opposite signs and |p| <= |x| < |p| + 1
Truncates(p, n) ==
  IF n >= 0 THEN p >= 0 /\ p * GainScale <= n /\ n < (p + 1) * GainScale
            ELSE p <= 0 /\ (p - 1) * GainScale < n /\ n <= p * GainScale

\* Kp*error + Ki*errorSum + Kd*errorDiff in units of 1 / GainScale
LeftPidSum ==
  gain_p * left_error + gain_i * left_error_sum + gain_d * left_error_diff
RightPidSum ==
  gain_p * right_error + gain_i * right_error_sum + gain_d * right_error_diff

\* C12: each side's computed power is its PID sum truncated toward zero, the
\* left motor is commanded minus the left power and the right motor the
\* right power.
C12_TruncatedPower ==
  Ticked =>
    /\ Truncates(left_power, LeftPidSum)
    /\ Truncates(right_power, RightPidSum)
    /\ pc = "loop" => left_motor = Motor("start", -left_power)
    /\ right_motor = Motor("start", right_power)

\* C12 witness: a PID sum strictly between -1 and 0 gave the power 0
C12_Witness ==
  /\ Ticked
  /\ LeftPidSum < 0 /\ LeftPidSum > -GainScale
  /\ left_power = 0 /\ left_motor = Motor("start", 0)

\* C13: if a sensor read exactly max_light on the tick before the latest and
\* a sensor (the same or the other) reads it on the latest, then on the
\* latest both motors are commanded speed 0, both errors, both error sums and
\* both differential terms being 0.
C13_StoppedOnSecondArrival ==
  Ticked /\ arrived_before
         /\ (left_light = max_light \/ right_light = max_light) =>
    /\ left_error = 0 /\ right_error = 0
    /\ left_error_sum = 0 /\ right_error_sum = 0
    /\ left_error_diff = 0 /\ right_error_diff = 0
    /\ right_motor.speed = 0
    /\ pc = "loop" => left_motor.speed = 0

\* C13 witness: the second of two such ticks, the left sensor alone reading
\* max_light on it
C13_Witness ==
  /\ pc = "loop" /\ Ticked /\ arrived_before
  /\ left_light = max_light /\ right_light > max_light
  /\ left_motor = Motor("start", 0) /\ right_motor = Motor("start", 0)

\* C16: at the end of every tick each side's previous error is the error
\* that side used for its power on that tick, whichever override fired.
C16_PrevErrorIsUsedError ==
  Ticked =>
    /\ left_prev_error = left_error
    /\ right_prev_error = right_error
    /\ left_power = power(left_error, left_error_sum, left_error_diff)
    /\ right_power = power(right_error, right_error_sum, right_error_diff)

\* C16 witness: the right sensor read max_light, so the left error read as
\* -5 was used and remembered as 0
C16_Witness ==
  /\ Ticked
  /\ right_light = max_light /\ left_light = max_light + 5
  /\ left_error = 0 /\ left_prev_error = 0

(***************************************************************************)
(* Further properties of the segmenter and of the encoder.                 *)
(***************************************************************************)
\* positive run-lengths at the odd positions, a 0 at each even position,
\* beginning and ending with a run-length
Alternating(letter) ==
  /\ Len(letter) % 2 = 1
  /\ \A k \in 1..Len(letter) :
       IF k % 2 = 1 THEN letter[k] > 0 ELSE letter[k] = 0

\* C14: for every run, whether the encoder can return it or not, every
\* letter the segmenter emits is non-empty, begins and ends with a positive
\* run-length and has exactly one 0 between successive run-lengths.
C14_LettersAlternate ==
  Translated => \A n \in 1..Len(letters) : Alternating(letters[n])

\* C14 witness: a run with a leading 0 and two adjacent positive entries
C14_Witness ==
  /\ Translated
  /\ morse = <<0, 1, 3, 0, 2>>
  /\ letters = << <<3, 0, 2>> >>

\* C15 as stated: every letter pattern is made of entries drawn from {1, 3},
\* with no 0 in it.
C15_OnlyDotsAndDashes ==
  Translated =>
    \A n \in 1..Len(letters) :
      \A k \in 1..Len(letters[n]) : letters[n][k] \in {1, 3}

\* the positive entries of the run
OnRuns == {morse[k] : k \in {j \in 1..Len(morse) : morse[j] > 0}}

\* C15 amended: every letter pattern of the encoder's run is made of
\* run-lengths of that run (so of 1 and 3 alone when the run has no other
\* on-run) with the intra-letter gaps kept: one 0 between two successive
\* run-lengths, and none after the last.
C15_GapsKept ==
  Translated =>
    \A n \in 1..Len(letters) :
      /\ letters[n] # <<>>
      /\ Last(letters[n]) \in OnRuns
      /\ \A k \in 1..(Len(letters[n]) - 1) :
           IF letters[n][k] = 0 THEN letters[n][k + 1] \in OnRuns
                                ELSE /\ letters[n][k] \in OnRuns
                                     /\ letters[n][k + 1] = 0
      /\ letters[n][1] # 0
      /\ OnRuns \subseteq {1, 3} =>
           \A k \in 1..Len(letters[n]) : letters[n][k] \in {0, 1, 3}

\* C15 witness: an on-run of 2 and one of 1, a single off-sample between
C15_Witness ==
  /\ Translated
  /\ OnOff = <<TRUE, TRUE, FALSE, TRUE>>
  /\ letters = << <<2, 0, 1>> >>

\* the distance of two light values
Apart(a, b) == IF a >= b THEN a - b ELSE b - a

\* the reading is strictly closer to max_light than to min_light
Closer(reading) == Apart(reading, max_light) < Apart(reading, min_light)

\* C18: readings with no on-sample (none at all, or all off) are encoded as
\* the empty run, and the empty run is translated to no letters and the
\* zero-length message, which demo reports with the SAD image.
C18_EmptyMessage ==
  /\ Encoded /\ (\A k \in 1..Len(readings) : ~Closer(readings[k])) =>
       morse = <<>>
  /\ Translated /\ morse = <<>> => letters = <<>> /\ message = <<>>
  /\ pc = "done" /\ morse = <<>> =>
       out = <<Event("print", 0, <<>>), Event("show_image", 0, <<"SAD">>)>>

\* C18 witness: three off-samples gave the empty message
C18_Witness ==
  /\ pc = "done"
  /\ Len(readings) = 3
  /\ \A k \in 1..3 : ~Closer(readings[k])
  /\ message = <<>>

\* C19: a reading counts as on exactly when it is strictly closer to
\* max_light than to min_light: the expanded run has an on-sample at each
\* such reading and an off-sample at every other reading before the last
\* on-sample, an equidistant one included.
C19_StrictlyCloser ==
  Encoded =>
    LET samples == Expand(morse)
    IN /\ Len(samples) <= Len(readings)
       /\ \A k \in 1..Len(readings) :
            Closer(readings[k]) <=> (k <= Len(samples) /\ samples[k])

\* C19 witness: a reading halfway between the references, between two
\* on-samples, gave a 0
C19_Witness ==
  /\ Encoded
  /\ max_light = 90 /\ min_light = 10
  /\ readings = <<90, 50, 90>>
  /\ morse = <<1, 0, 1>>

(***************************************************************************)
(* Termination of follow_light.                                            *)
(***************************************************************************)
\* C17: the loop runs a tick only while the elapsed time is <= duration, and
\* once follow_light is in its loop both motors are eventually stopped.
C17_Terminates ==
  /\ [][TickStep => now <= duration]_vars
  /\ (pc = "loop") ~> (left_stops = 1 /\ right_stops = 1)

\* C17 witness: the timer passed the duration during a tick and the loop was
\* left before another one
C17_Witness ==
  /\ pc = "stop_right"
  /\ Ticked
  /\ duration = 1 /\ now = 2
  /\ left_stops = 1

====
